---- MODULE Spec2Model ----
(***************************************************************************)
(* Meeting Summarizer API (backend/main.py): process start-up from the     *)
(* environment, and the four HTTP handlers health, summarize,              *)
(* upload_and_summarize and send_email, with their outbound calls to the   *)
(* generative-model provider and to the SMTP server.                       *)
(*                                                                         *)
(* Text is a sequence of Unicode code points, bytes are integers 0..255.   *)
(* An optional value (an environment variable, an attribute that may be    *)
(* missing) is <<>> when absent and <<v>> when present.                    *)
(***************************************************************************)
EXTENDS Integers, Sequences, FiniteSets, TLC

VARIABLES
    env,       \* the process environment read by os.getenv at import time
    proc,      \* "boot" | "running" | "crashed": outcome of importing main.py
    cfg,       \* <<>> until the module globals are assigned, then <<record>>
    pc,        \* "idle", the position of the handler of the request in flight,
               \* or "done" once it has answered
    req,       \* the request being (or last) handled
    calls,     \* provider calls made while handling req, in order
    response,  \* <<>> or <<outcome of model.generate_content>>
    msg,       \* <<>> or <<the EmailMessage built by send_email>>
    smtp,      \* SMTP operations attempted while handling req, in order
    pending,   \* exception raised inside the `with smtplib.SMTP` block, or ""
    resp       \* what the caller receives for req

vars == <<env, proc, cfg, pc, req, calls, response, msg, smtp, pending, resp>>

-----------------------------------------------------------------------------
(* Bounds of the explored inputs.                                          *)

MaxText == 2

MaxReply == 2

MaxBytes == 2

MaxRecipients == 2

\* code points of transcripts: LF, "A"
TextChars == {10, 65}

\* code points of the provider's text: space, "A"
ReplyChars == {32, 65}

\* bytes of uploaded files: "A", and the lead and the continuation byte of
\* U+00E9, each ill-formed on its own
FileBytes == {65, 195, 169}

SeqsUpTo(S, n) == UNION {[1..k -> S] : k \in 0..n}

-----------------------------------------------------------------------------
(* Python built-ins the module relies on.                                  *)

\* str.isspace(): the code points str.strip() removes
Whitespace ==
    (9..13) \cup (28..32) \cup {133, 160, 5760} \cup (8192..8202)
        \cup {8232, 8233, 8239, 8287, 12288}

RECURSIVE LStrip(_)
LStrip(s) ==
    IF s # <<>> /\ Head(s) \in Whitespace THEN LStrip(Tail(s)) ELSE s

RECURSIVE RStrip(_)
RStrip(s) ==
    IF s # <<>> /\ s[Len(s)] \in Whitespace
    THEN RStrip(SubSeq(s, 1, Len(s) - 1))
    ELSE s

\* str.strip()
Strip(s) == RStrip(LStrip(s))

\* truth value of a str: empty is false
TruthyStr(s) == s # <<>>

\* truth value of an int: zero is false
TruthyInt(n) == n # 0

Digits == 48..57

RECURSIVE DigitsValue(_)
DigitsValue(s) ==
    IF s = <<>> THEN 0
    ELSE 10 * DigitsValue(SubSeq(s, 1, Len(s) - 1)) + (s[Len(s)] - 48)

\* int(str): surrounding whitespace, an optional sign, then decimal digits
\* (the explored values hold no "_" digit separators).  <<>> is ValueError.
ParseInt(s) ==
    LET t == Strip(s)
        signed == t # <<>> /\ t[1] \in {43, 45}
        d == IF signed THEN Tail(t) ELSE t
    IN  IF d = <<>> \/ \E i \in 1..Len(d) : d[i] \notin Digits
        THEN <<>>
        ELSE << IF signed /\ t[1] = 45 THEN 0 - DigitsValue(d) ELSE DigitsValue(d) >>

IsCont(b) == b \in 128..191

\* the range the second byte of a multi-byte sequence must lie in
SecondRange(b) ==
    CASE b = 224 -> 160..191
      [] b = 237 -> 128..159
      [] b = 240 -> 144..191
      [] b = 244 -> 128..143
      [] OTHER   -> 128..191

\* bytes.decode("utf-8", errors="ignore"): every well-formed sequence becomes
\* its code point, and each maximal ill-formed run of bytes is dropped.
RECURSIVE DecodeUtf8Ignore(_)
DecodeUtf8Ignore(bs) ==
    IF bs = <<>> THEN <<>>
    ELSE
      LET b == bs[1]
          n == Len(bs)
          rest(k) == DecodeUtf8Ignore(SubSeq(bs, k + 1, n))
          second == n >= 2 /\ bs[2] \in SecondRange(b)
          third == n >= 3 /\ IsCont(bs[3])
          fourth == n >= 4 /\ IsCont(bs[4])
      IN  CASE b < 128 -> <<b>> \o rest(1)
            [] b \in 194..223 ->
                 IF second
                 THEN <<(b - 192) * 64 + (bs[2] - 128)>> \o rest(2)
                 ELSE rest(1)
            [] b \in 224..239 ->
                 IF ~second THEN rest(1)
                 ELSE IF ~third THEN rest(2)
                 ELSE <<(b - 224) * 4096 + (bs[2] - 128) * 64 + (bs[3] - 128)>>
                          \o rest(3)
            [] b \in 240..244 ->
                 IF ~second THEN rest(1)
                 ELSE IF ~third THEN rest(2)
                 ELSE IF ~fourth THEN rest(3)
                 ELSE <<(b - 240) * 262144 + (bs[2] - 128) * 4096
                            + (bs[3] - 128) * 64 + (bs[4] - 128)>> \o rest(4)
            [] OTHER -> rest(1)

\* the line boundaries str.splitlines() splits on
LineBreaks == {10, 11, 12, 13, 28, 29, 30, 133, 8232, 8233}

\* len(s.splitlines()): CR LF is one boundary, a final boundary ends the
\* last line without opening another
RECURSIVE NumLines(_)
NumLines(s) ==
    IF s = <<>> THEN 0
    ELSE IF s[1] \notin LineBreaks
    THEN (IF Len(s) = 1 THEN 1 ELSE NumLines(Tail(s)))
    ELSE IF s[1] = 13 /\ Len(s) >= 2 /\ s[2] = 10
    THEN 1 + NumLines(SubSeq(s, 3, Len(s)))
    ELSE 1 + NumLines(Tail(s))

\* sep.join(items)
RECURSIVE Join(_, _)
Join(sep, items) ==
    IF items = <<>> THEN <<>>
    ELSE IF Len(items) = 1 THEN items[1]
    ELSE items[1] \o sep \o Join(sep, Tail(items))

-----------------------------------------------------------------------------
(* Literals of main.py.                                                    *)

SYSTEM_PROMPT ==
    <<89, 111, 117, 32, 97, 114, 101, 32, 97, 32, 112, 114, 111, 102, 101, 115, 115, 105, 111, 110,
    97, 108, 32, 109, 101, 101, 116, 105, 110, 103, 32, 109, 105, 110, 117, 116, 101, 115, 32, 97,
    115, 115, 105, 115, 116, 97, 110, 116, 46, 32, 89, 111, 117, 114, 32, 106, 111, 98, 32, 105,
    115, 32, 116, 111, 32, 101, 120, 116, 114, 97, 99, 116, 32, 97, 110, 100, 32, 99, 108, 101,
    97, 114, 108, 121, 32, 112, 114, 101, 115, 101, 110, 116, 32, 116, 104, 101, 32, 109, 111, 115,
    116, 32, 105, 109, 112, 111, 114, 116, 97, 110, 116, 32, 105, 110, 102, 111, 114, 109, 97, 116,
    105, 111, 110, 32, 102, 114, 111, 109, 32, 109, 101, 101, 116, 105, 110, 103, 32, 116, 114, 97,
    110, 115, 99, 114, 105, 112, 116, 115, 46, 32, 65, 108, 119, 97, 121, 115, 32, 117, 115, 101,
    32, 99, 111, 110, 99, 105, 115, 101, 32, 97, 110, 100, 32, 117, 110, 97, 109, 98, 105, 103,
    117, 111, 117, 115, 32, 108, 97, 110, 103, 117, 97, 103, 101, 46, 32, 10, 10, 82, 101, 113,
    117, 105, 114, 101, 100, 32, 79, 117, 116, 112, 117, 116, 32, 70, 111, 114, 109, 97, 116, 32,
    40, 105, 110, 32, 99, 108, 101, 97, 110, 32, 77, 97, 114, 107, 100, 111, 119, 110, 41, 58,
    10, 35, 35, 35, 32, 79, 118, 101, 114, 118, 105, 101, 119, 10, 45, 32, 79, 110, 101, 32,
    111, 114, 32, 116, 119, 111, 32, 115, 101, 110, 116, 101, 110, 99, 101, 115, 32, 115, 117, 109,
    109, 97, 114, 105, 122, 105, 110, 103, 32, 116, 104, 101, 32, 111, 118, 101, 114, 97, 108, 108,
    32, 112, 117, 114, 112, 111, 115, 101, 32, 111, 102, 32, 116, 104, 101, 32, 109, 101, 101, 116,
    105, 110, 103, 46, 10, 10, 35, 35, 35, 32, 75, 101, 121, 32, 80, 111, 105, 110, 116, 115,
    10, 45, 32, 66, 117, 108, 108, 101, 116, 32, 108, 105, 115, 116, 32, 111, 102, 32, 116, 104,
    101, 32, 109, 111, 115, 116, 32, 114, 101, 108, 101, 118, 97, 110, 116, 32, 100, 105, 115, 99,
    117, 115, 115, 105, 111, 110, 32, 105, 116, 101, 109, 115, 32, 40, 115, 104, 111, 114, 116, 44,
    32, 102, 97, 99, 116, 117, 97, 108, 44, 32, 110, 111, 32, 114, 101, 112, 101, 116, 105, 116,
    105, 111, 110, 41, 46, 10, 10, 35, 35, 35, 32, 68, 101, 99, 105, 115, 105, 111, 110, 115,
    10, 45, 32, 76, 105, 115, 116, 32, 100, 101, 99, 105, 115, 105, 111, 110, 115, 32, 109, 97,
    100, 101, 44, 32, 105, 110, 99, 108, 117, 100, 105, 110, 103, 32, 42, 119, 104, 111, 42, 32,
    109, 97, 100, 101, 32, 116, 104, 101, 32, 100, 101, 99, 105, 115, 105, 111, 110, 46, 10, 10,
    35, 35, 35, 32, 65, 99, 116, 105, 111, 110, 32, 73, 116, 101, 109, 115, 10, 45, 32, 70,
    111, 114, 109, 97, 116, 32, 101, 97, 99, 104, 32, 97, 99, 116, 105, 111, 110, 32, 105, 116,
    101, 109, 32, 97, 115, 58, 32, 42, 42, 91, 79, 119, 110, 101, 114, 93, 58, 42, 42, 32,
    91, 84, 97, 115, 107, 93, 32, 42, 40, 68, 117, 101, 58, 32, 91, 100, 97, 116, 101, 32,
    105, 102, 32, 109, 101, 110, 116, 105, 111, 110, 101, 100, 44, 32, 111, 116, 104, 101, 114, 119,
    105, 115, 101, 32, 39, 84, 66, 68, 39, 93, 41, 42, 10, 10, 35, 35, 35, 32, 82, 105,
    115, 107, 115, 47, 68, 101, 112, 101, 110, 100, 101, 110, 99, 105, 101, 115, 10, 45, 32, 77,
    101, 110, 116, 105, 111, 110, 32, 112, 111, 116, 101, 110, 116, 105, 97, 108, 32, 114, 105, 115,
    107, 115, 44, 32, 98, 108, 111, 99, 107, 101, 114, 115, 44, 32, 111, 114, 32, 100, 101, 112,
    101, 110, 100, 101, 110, 99, 105, 101, 115, 32, 40, 105, 102, 32, 110, 111, 110, 101, 44, 32,
    119, 114, 105, 116, 101, 32, 39, 78, 111, 110, 101, 32, 105, 100, 101, 110, 116, 105, 102, 105,
    101, 100, 39, 41, 46, 10, 10, 35, 35, 35, 32, 78, 101, 120, 116, 32, 83, 116, 101, 112,
    115, 10, 45, 32, 76, 105, 115, 116, 32, 102, 111, 108, 108, 111, 119, 45, 117, 112, 32, 97,
    99, 116, 105, 111, 110, 115, 32, 111, 114, 32, 117, 112, 99, 111, 109, 105, 110, 103, 32, 101,
    118, 101, 110, 116, 115, 46, 10, 10, 73, 102, 32, 116, 104, 101, 32, 117, 115, 101, 114, 32,
    112, 114, 111, 118, 105, 100, 101, 115, 32, 97, 32, 99, 117, 115, 116, 111, 109, 32, 105, 110,
    115, 116, 114, 117, 99, 116, 105, 111, 110, 44, 32, 115, 116, 114, 105, 99, 116, 108, 121, 32,
    102, 111, 108, 108, 111, 119, 32, 105, 116, 32, 119, 104, 105, 108, 101, 32, 107, 101, 101, 112,
    105, 110, 103, 32, 111, 117, 116, 112, 117, 116, 32, 115, 116, 114, 117, 99, 116, 117, 114, 101,
    100, 32, 97, 110, 100, 32, 112, 114, 101, 99, 105, 115, 101, 46>>

\* "smtp.gmail.com"
DefaultSmtpHost == <<115, 109, 116, 112, 46, 103, 109, 97, 105, 108, 46, 99, 111, 109>>

\* "587"
DefaultSmtpPort == <<53, 56, 55>>

\* "Meeting Summary"
DefaultSubject == <<77, 101, 101, 116, 105, 110, 103, 32, 83, 117, 109, 109, 97, 114, 121>>

\* "Summarize the meeting and extract action items."
DefaultPrompt ==
    <<83, 117, 109, 109, 97, 114, 105, 122, 101, 32, 116, 104, 101, 32, 109, 101,
      101, 116, 105, 110, 103, 32, 97, 110, 100, 32, 101, 120, 116, 114, 97, 99,
      116, 32, 97, 99, 116, 105, 111, 110, 32, 105, 116, 101, 109, 115, 46>>

\* "[no summary returned]"
NoSummary ==
    <<91, 110, 111, 32, 115, 117, 109, 109, 97, 114, 121, 32, 114, 101, 116, 117,
      114, 110, 101, 100, 93>>

NotConfiguredError == "SMTP not configured on server."

\* '<html><body><pre style="font-family: ui-monospace, monospace;">'
HtmlOpen ==
    <<60, 104, 116, 109, 108, 62, 60, 98, 111, 100, 121, 62, 60, 112, 114, 101,
      32, 115, 116, 121, 108, 101, 61, 34, 102, 111, 110, 116, 45, 102, 97, 109,
      105, 108, 121, 58, 32, 117, 105, 45, 109, 111, 110, 111, 115, 112, 97, 99,
      101, 44, 32, 109, 111, 110, 111, 115, 112, 97, 99, 101, 59, 34, 62>>

\* "</pre></body></html>"
HtmlClose ==
    <<60, 47, 112, 114, 101, 62, 60, 47, 98, 111, 100, 121, 62, 60, 47, 104, 116,
      109, 108, 62>>

-----------------------------------------------------------------------------
(* JSON values and the shapes handed between the handlers and the caller.  *)

JAbsent == [t |-> "absent", v |-> <<>>]
JNull == [t |-> "null", v |-> <<>>]
JStr(s) == [t |-> "str", v |-> s]

NoReq ==
    [endpoint |-> "", transcript |-> <<>>, prompt |-> <<>>, file |-> <<>>,
     summary |-> <<>>, recipients |-> <<>>, subject |-> JAbsent]

NoResp == [kind |-> "none", ok |-> FALSE, error |-> "", summary |-> JAbsent]

\* 200 {"status": "ok"}
HealthResp == [NoResp EXCEPT !.kind = "health", !.ok = TRUE]

\* 200 {"summary": s}
SummaryResp(s) == [NoResp EXCEPT !.kind = "summary", !.summary = s]

\* 200 {"ok": true}
EmailOk == [NoResp EXCEPT !.kind = "email", !.ok = TRUE]

\* 200 {"ok": false, "error": e}
EmailFail(e) == [NoResp EXCEPT !.kind = "email", !.error = e]

\* 422: the body failed validation, the handler was not called
ValidationError == [NoResp EXCEPT !.kind = "validation_error"]

\* an exception left the handler: the framework answers 500
Unhandled(e) == [NoResp EXCEPT !.kind = "unhandled", !.error = e]

-----------------------------------------------------------------------------
(* Start-up: the module body of main.py.                                   *)

\* os.getenv(name, default)
Getenv(name, default) == IF env[name] = <<>> THEN default ELSE env[name][1]

\* as if the test were `GEMINI_API_KEY is None`
KeyMissing_NoneOnly(key) == key = <<>>

\* `not GEMINI_API_KEY`, GEMINI_API_KEY being os.getenv("GEMINI_API_KEY")
KeyMissing(key) == key = <<>> \/ ~TruthyStr(key[1])

\* the SMTP globals; SMTP_PORT is <<>> when int() raises ValueError
SmtpSettings ==
    [SMTP_HOST  |-> Getenv("SMTP_HOST", DefaultSmtpHost),
     SMTP_PORT  |-> ParseInt(Getenv("SMTP_PORT", DefaultSmtpPort)),
     SMTP_USER  |-> Getenv("SMTP_USER", <<>>),
     SMTP_PASS  |-> Getenv("SMTP_PASS", <<>>),
     FROM_EMAIL |-> Getenv("FROM_EMAIL", Getenv("SMTP_USER", <<>>))]

Startup ==
    /\ proc = "boot"
    /\ IF KeyMissing(env["GEMINI_API_KEY"])
       THEN /\ proc' = "RuntimeError"
            /\ cfg' = <<>>
       ELSE IF SmtpSettings.SMTP_PORT = <<>>
       THEN /\ proc' = "ValueError"
            /\ cfg' = <<>>
       ELSE /\ proc' = "running"
            /\ cfg' = << [SmtpSettings EXCEPT !.SMTP_PORT = SmtpSettings.SMTP_PORT[1]] >>
    /\ UNCHANGED <<env, pc, req, calls, response, msg, smtp, pending, resp>>

\* a request is taken up: nothing of the previous request's handling remains
Accept(r) ==
    /\ proc = "running"
    /\ pc = "idle"
    /\ req' = r
    /\ UNCHANGED <<env, proc, cfg>>

\* the response has been sent: the request and all that was built for it are
\* dropped, and the next request finds only the configuration
Discard ==
    /\ pc = "done"
    /\ pc' = "idle"
    /\ req' = NoReq
    /\ calls' = <<>>
    /\ response' = <<>>
    /\ msg' = <<>>
    /\ smtp' = <<>>
    /\ pending' = ""
    /\ resp' = NoResp
    /\ UNCHANGED <<env, proc, cfg>>

-----------------------------------------------------------------------------
(* GET /health                                                             *)

Health ==
    /\ Accept([NoReq EXCEPT !.endpoint = "/health"])
    /\ resp' = HealthResp
    /\ pc' = "done"
    /\ calls' = <<>>
    /\ response' = <<>>
    /\ msg' = <<>>
    /\ smtp' = <<>>
    /\ pending' = ""

-----------------------------------------------------------------------------
(* POST /summarize and POST /upload_and_summarize                          *)

Instructions == {<<>>, <<76>>}

Transcripts == SeqsUpTo(TextChars, MaxText)

Files == SeqsUpTo(FileBytes, MaxBytes)

\* the prompt field of the upload form: left out, or "L"
FormPrompts == {<<>>, << <<76>> >>}

\* what model.generate_content does: raise, or return an object whose text
\* attribute is missing, None or a string
ProviderOutcomes ==
    {[raised |-> TRUE, text |-> JAbsent]}
        \cup {[raised |-> FALSE, text |-> t] :
                 t \in {JAbsent, JNull} \cup {JStr(s) : s \in SeqsUpTo(ReplyChars, MaxReply)}}

\* the prompt without its "Instruction: " label
FormatPrompt_NoLabel(prompt, transcript) ==
    prompt
        \o <<10, 10, 84, 114, 97, 110, 115, 99, 114, 105, 112, 116, 58, 10>>
        \o transcript

\* f"Instruction: {prompt}\n\nTranscript:\n{transcript}"
FormatPrompt(prompt, transcript) ==
    <<73, 110, 115, 116, 114, 117, 99, 116, 105, 111, 110, 58, 32>>
        \o prompt
        \o <<10, 10, 84, 114, 97, 110, 115, 99, 114, 105, 112, 116, 58, 10>>
        \o transcript

\* genai.GenerativeModel(GEMINI_MODEL).generate_content(user_content): the
\* model is built without a system instruction
GenerateContent(user_content) ==
    [system_instruction |-> <<>>, contents |-> user_content]

\* as if the test were `text is not None`
SummaryText_NotNone(text) ==
    IF text.t = "str" THEN Strip(text.v) ELSE NoSummary

\* response.text.strip() if getattr(response, "text", None) else "[no summary returned]"
SummaryText(text) ==
    IF text.t = "str" /\ TruthyStr(text.v) THEN Strip(text.v) ELSE NoSummary

\* the handler's last two statements, given what generate_content did
Finish(o) ==
    /\ response' = <<o>>
    /\ resp' = IF o.raised
               THEN Unhandled("generate_content")
               ELSE SummaryResp(JStr(SummaryText(o.text)))
    /\ pc' = "done"
    /\ UNCHANGED <<env, proc, cfg, req, calls, msg, smtp, pending>>

Summarize(transcript, prompt) ==
    /\ Accept([NoReq EXCEPT !.endpoint = "/summarize",
                            !.transcript = transcript, !.prompt = <<prompt>>])
    /\ calls' = <<GenerateContent(FormatPrompt(prompt, transcript))>>
    /\ pc' = "summarize"
    /\ response' = <<>>
    /\ resp' = NoResp
    /\ msg' = <<>>
    /\ smtp' = <<>>
    /\ pending' = ""

SummarizeReturn(o) ==
    /\ pc = "summarize"
    /\ Finish(o)

\* `prompt` is the form field, <<>> when the form omits it
UploadAndSummarize(file, prompt) ==
    /\ Accept([NoReq EXCEPT !.endpoint = "/upload_and_summarize",
                            !.file = file, !.prompt = prompt])
    /\ LET instruction == IF prompt = <<>> THEN DefaultPrompt ELSE prompt[1]
           transcript == DecodeUtf8Ignore(file)
       IN  calls' = <<GenerateContent(FormatPrompt(instruction, transcript))>>
    /\ pc' = "upload_and_summarize"
    /\ response' = <<>>
    /\ resp' = NoResp
    /\ msg' = <<>>
    /\ smtp' = <<>>
    /\ pending' = ""

UploadAndSummarizeReturn(o) ==
    /\ pc = "upload_and_summarize"
    /\ Finish(o)

-----------------------------------------------------------------------------
(* POST /email                                                             *)

\* "a@b.co", "c@d.io", "not-an-email"
Addresses ==
    {<<97, 64, 98, 46, 99, 111>>, <<99, 64, 100, 46, 105, 111>>,
     <<110, 111, 116, 45, 97, 110, 45, 101, 109, 97, 105, 108>>}

Summaries == {<<65>>}

\* the subject member of the JSON body: left out, null, "S", "S\nS"
Subjects == {JAbsent, JNull, JStr(<<83>>), JStr(<<83, 10, 83>>)}

EmailBodies ==
    {[NoReq EXCEPT !.endpoint = "/email", !.summary = s, !.recipients = r,
                   !.subject = j] :
        s \in Summaries, r \in SeqsUpTo(Addresses, MaxRecipients), j \in Subjects}

AlphaNum == (48..57) \cup (65..90) \cup (97..122)

\* the characters of an unquoted local part besides letters and digits
LocalSpecials == {33, 35, 36, 37, 38, 39, 42, 43, 45, 47, 61, 63, 94, 95, 96, 123, 124, 125, 126}

\* dot-separated, non-empty atoms
DotAtom(s, chars) ==
    /\ s # <<>>
    /\ \A i \in 1..Len(s) : s[i] \in chars \cup {46}
    /\ s[1] # 46
    /\ s[Len(s)] # 46
    /\ \A i \in 1..(Len(s) - 1) : ~(s[i] = 46 /\ s[i + 1] = 46)

\* EmailStr: local@domain, the domain with a period and no label starting or
\* ending with a hyphen
IsEmail(a) ==
    \E k \in 1..Len(a) :
        /\ a[k] = 64
        /\ \A i \in 1..Len(a) : a[i] = 64 => i = k
        /\ DotAtom(SubSeq(a, 1, k - 1), AlphaNum \cup LocalSpecials)
        /\ LET d == SubSeq(a, k + 1, Len(a))
           IN  /\ DotAtom(d, AlphaNum \cup {45})
               /\ \E i \in 1..Len(d) : d[i] = 46
               /\ d[1] # 45
               /\ d[Len(d)] # 45
               /\ \A i \in 1..(Len(d) - 1) :
                      ~(d[i] = 45 /\ d[i + 1] = 46) /\ ~(d[i] = 46 /\ d[i + 1] = 45)

\* as if only the first recipient were validated
ValidRecipients_FirstOnly(rs) == rs = <<>> \/ IsEmail(rs[1])

\* recipients: List[EmailStr]
ValidRecipients(rs) == \A i \in 1..Len(rs) : IsEmail(rs[i])

\* subject: Optional[str] = "Meeting Summary"; <<>> is None
ParsedSubject(j) ==
    CASE j.t = "absent" -> <<DefaultSubject>>
      [] j.t = "null"   -> <<>>
      [] OTHER          -> <<j.v>>

\* as if the password were left out of the test
SmtpConfigured_NoPass(c) ==
    /\ TruthyStr(c.SMTP_HOST)
    /\ TruthyInt(c.SMTP_PORT)
    /\ TruthyStr(c.SMTP_USER)
    /\ TruthyStr(c.FROM_EMAIL)

\* all([SMTP_HOST, SMTP_PORT, SMTP_USER, SMTP_PASS, FROM_EMAIL])
SmtpConfigured(c) ==
    /\ TruthyStr(c.SMTP_HOST)
    /\ TruthyInt(c.SMTP_PORT)
    /\ TruthyStr(c.SMTP_USER)
    /\ TruthyStr(c.SMTP_PASS)
    /\ TruthyStr(c.FROM_EMAIL)

\* msg[name] = value: EmailMessage refuses a value of more than one line
HeaderOk(value) == NumLines(value) <= 1

\* the EmailMessage the handler builds; <<>> when setting a header raises
BuildMessage(c, body) ==
    LET subject == ParsedSubject(body.subject)
        Subject == IF subject = <<>> THEN <<>> ELSE subject[1]
        To == Join(<<44, 32>>, body.recipients)
    IN  IF HeaderOk(Subject) /\ HeaderOk(c.FROM_EMAIL) /\ HeaderOk(To)
        THEN << [Subject |-> Subject, From |-> c.FROM_EMAIL, To |-> To,
                 content |-> body.summary,
                 html |-> HtmlOpen \o body.summary \o HtmlClose] >>
        ELSE <<>>

\* the request up to the point where smtplib.SMTP(...) is called
SendEmail(body) ==
    /\ Accept(body)
    /\ calls' = <<>>
    /\ response' = <<>>
    /\ smtp' = <<>>
    /\ pending' = ""
    /\ IF ~ValidRecipients(body.recipients)
       THEN /\ resp' = ValidationError
            /\ msg' = <<>>
            /\ pc' = "done"
       ELSE IF ~SmtpConfigured(cfg[1])
       THEN /\ resp' = EmailFail(NotConfiguredError)
            /\ msg' = <<>>
            /\ pc' = "done"
       ELSE /\ msg' = BuildMessage(cfg[1], body)
            /\ IF msg' = <<>>
               THEN /\ resp' = Unhandled("ValueError")
                    /\ pc' = "done"
               ELSE /\ resp' = NoResp
                    /\ pc' = "connect"

\* as if the connection were opened before the `try`
SmtpConnect_Uncaught(ok) ==
    /\ pc = "connect"
    /\ smtp' = Append(smtp, [op |-> "connect", result |-> IF ok THEN "ok" ELSE "error"])
    /\ pc' = IF ok THEN "starttls" ELSE "done"
    /\ resp' = IF ok THEN resp ELSE Unhandled("connect")
    /\ UNCHANGED <<env, proc, cfg, req, calls, response, msg, pending>>

\* smtplib.SMTP(SMTP_HOST, SMTP_PORT): when it raises there is no session
\* to leave
SmtpConnect(ok) ==
    /\ pc = "connect"
    /\ smtp' = Append(smtp, [op |-> "connect", result |-> IF ok THEN "ok" ELSE "error"])
    /\ pc' = IF ok THEN "starttls" ELSE "done"
    /\ resp' = IF ok THEN resp ELSE EmailFail("connect")
    /\ UNCHANGED <<env, proc, cfg, req, calls, response, msg, pending>>

\* as if a failed STARTTLS were swallowed and the session went on
SmtpStartTls_Swallowed(ok) ==
    /\ pc = "starttls"
    /\ smtp' = Append(smtp, [op |-> "starttls", result |-> IF ok THEN "ok" ELSE "error"])
    /\ pc' = "login"
    /\ pending' = ""
    /\ UNCHANGED <<env, proc, cfg, req, calls, response, msg, resp>>

\* s.starttls(): when it raises, the rest of the block is skipped
SmtpStartTls(ok) ==
    /\ pc = "starttls"
    /\ smtp' = Append(smtp, [op |-> "starttls", result |-> IF ok THEN "ok" ELSE "error"])
    /\ pc' = IF ok THEN "login" ELSE "exit"
    /\ pending' = IF ok THEN "" ELSE "starttls"
    /\ UNCHANGED <<env, proc, cfg, req, calls, response, msg, resp>>

\* s.login(SMTP_USER, SMTP_PASS)
SmtpLogin(ok) ==
    /\ pc = "login"
    /\ smtp' = Append(smtp, [op |-> "login", result |-> IF ok THEN "ok" ELSE "error"])
    /\ pc' = IF ok THEN "send_message" ELSE "exit"
    /\ pending' = IF ok THEN "" ELSE "login"
    /\ UNCHANGED <<env, proc, cfg, req, calls, response, msg, resp>>

\* s.send_message(msg)
SmtpSendMessage(ok) ==
    /\ pc = "send_message"
    /\ smtp' = Append(smtp, [op |-> "send_message", result |-> IF ok THEN "ok" ELSE "error"])
    /\ pc' = "exit"
    /\ pending' = IF ok THEN "" ELSE "send_message"
    /\ UNCHANGED <<env, proc, cfg, req, calls, response, msg, resp>>

QuitOutcomes == {"ok", "disconnected", "error"}

\* leaving the `with` block sends QUIT: a dropped connection is ignored, any
\* other failure raises; then `except Exception` and the final return
SmtpExit(quit) ==
    /\ pc = "exit"
    /\ quit \in QuitOutcomes
    /\ smtp' = Append(smtp, [op |-> "quit", result |-> quit])
    /\ LET e == IF quit = "error" THEN "quit" ELSE pending
       IN  resp' = IF e = "" THEN EmailOk ELSE EmailFail(e)
    /\ pc' = "done"
    /\ pending' = ""
    /\ UNCHANGED <<env, proc, cfg, req, calls, response, msg>>

-----------------------------------------------------------------------------
(* The environment the process is started in, and the system.              *)

\* an environment variable: unset, set to "", set to `value`
Setting(value) == {<<>>, << <<>> >>, <<value>>}

Environments ==
    [GEMINI_API_KEY : Setting(<<107>>),
     SMTP_HOST      : Setting(<<104>>),
     SMTP_PORT      : Setting(<<50, 53>>) \cup {<< <<48>> >>},
     SMTP_USER      : Setting(<<117>>),
     SMTP_PASS      : Setting(<<112>>),
     FROM_EMAIL     : Setting(<<102>>)]

Init ==
    /\ env \in Environments
    /\ proc = "boot"
    /\ cfg = <<>>
    /\ pc = "idle"
    /\ req = NoReq
    /\ calls = <<>>
    /\ response = <<>>
    /\ msg = <<>>
    /\ smtp = <<>>
    /\ pending = ""
    /\ resp = NoResp

Next ==
    \/ Startup
    \/ Health
    \/ \E t \in Transcripts, p \in Instructions : Summarize(t, p)
    \/ \E o \in ProviderOutcomes : SummarizeReturn(o)
    \/ \E f \in Files, p \in FormPrompts : UploadAndSummarize(f, p)
    \/ \E o \in ProviderOutcomes : UploadAndSummarizeReturn(o)
    \/ \E b \in EmailBodies : SendEmail(b)
    \/ \E ok \in BOOLEAN : SmtpConnect(ok)
    \/ \E ok \in BOOLEAN : SmtpStartTls(ok)
    \/ \E ok \in BOOLEAN : SmtpLogin(ok)
    \/ \E ok \in BOOLEAN : SmtpSendMessage(ok)
    \/ \E q \in QuitOutcomes : SmtpExit(q)
    \/ Discard

Spec == Init /\ [][Next]_vars

-----------------------------------------------------------------------------
(* Properties.                                                             *)

SummarizeEndpoints == {"/summarize", "/upload_and_summarize"}

SmtpVars == {"SMTP_HOST", "SMTP_PORT", "SMTP_USER", "SMTP_PASS", "FROM_EMAIL"}

Unset(name) == env[name] = <<>>

SetEmpty(name) == env[name] = << <<>> >>

\* a /email request whose recipients all validate, in a started process
ValidEmailRequest ==
    /\ proc = "running"
    /\ req.endpoint = "/email"
    /\ \A i \in 1..Len(req.recipients) : IsEmail(req.recipients[i])

\* 200 {"ok": false, "error": "SMTP not configured on server."}
NotConfiguredResp ==
    [kind |-> "email", ok |-> FALSE, error |-> "SMTP not configured on server.",
     summary |-> [t |-> "absent", v |-> <<>>]]

Contains(s, p) == \E k \in 0..(Len(s) - Len(p)) : SubSeq(s, k + 1, k + Len(p)) = p

\* "Instruction: " + instruction + "\n\nTranscript:\n" + transcript
ExactPrompt(instruction, transcript) ==
    <<73, 110, 115, 116, 114, 117, 99, 116, 105, 111, 110, 58, 32>>
        \o instruction
        \o <<10, 10, 84, 114, 97, 110, 115, 99, 114, 105, 112, 116, 58, 10>>
        \o transcript

\* C1: summarize and upload_and_summarize make one generate call, and the
\* string they pass is exactly "Instruction: " + instruction +
\* "\n\nTranscript:\n" + transcript, the transcript of an upload being the
\* file's bytes decoded as UTF-8 with the undecodable bytes dropped.
C1_PromptExact ==
    /\ req.endpoint = "/summarize" =>
          /\ Len(calls) = 1
          /\ calls[1].contents = ExactPrompt(req.prompt[1], req.transcript)
    /\ req.endpoint = "/upload_and_summarize" =>
          /\ Len(calls) = 1
          /\ calls[1].contents =
                ExactPrompt(IF req.prompt = <<>> THEN DefaultPrompt ELSE req.prompt[1],
                            DecodeUtf8Ignore(req.file))

\* an upload whose first byte cannot be decoded has reached the provider call
C1_Witness ==
    /\ pc = "upload_and_summarize"
    /\ req.file = <<169, 65>>
    /\ req.prompt = << <<76>> >>
    /\ calls[1].contents =
          <<73, 110, 115, 116, 114, 117, 99, 116, 105, 111, 110, 58, 32, 76,
            10, 10, 84, 114, 97, 110, 115, 99, 114, 105, 112, 116, 58, 10, 65>>

NoText(text) == text.t \in {"absent", "null"} \/ (text.t = "str" /\ text.v = <<>>)

ProviderReturned == response # <<>> /\ ~response[1].raised

ProviderRaised == response # <<>> /\ response[1].raised

\* C2: when the provider's response has no text (the attribute is missing,
\* None or ""), summarize and upload_and_summarize answer
\* {"summary": "[no summary returned]"}: no error, and no null summary.
C2_NoTextGivesSentinel ==
    (req.endpoint \in SummarizeEndpoints /\ ProviderReturned /\ NoText(response[1].text))
        => /\ pc = "done"
           /\ resp.kind = "summary"
           /\ resp.summary =
                 [t |-> "str",
                  v |-> <<91, 110, 111, 32, 115, 117, 109, 109, 97, 114, 121, 32,
                          114, 101, 116, 117, 114, 110, 101, 100, 93>>]

\* summarize was answered with the text "" by the provider
C2_Witness ==
    /\ req.endpoint = "/summarize"
    /\ ProviderReturned
    /\ response[1].text = [t |-> "str", v |-> <<>>]
    /\ resp.kind = "summary"

C3_EffectivelyMissing ==
    \/ Unset("SMTP_USER") \/ SetEmpty("SMTP_USER")
    \/ Unset("SMTP_PASS") \/ SetEmpty("SMTP_PASS")
    \/ SetEmpty("SMTP_HOST")
    \/ SetEmpty("FROM_EMAIL")
    \/ env["SMTP_PORT"] = << <<48>> >>

C4_Original ==
    (ValidEmailRequest /\ pc = "done") => resp.kind = "email"

\* C5: a /email request with a recipient that is no valid address is rejected
\* with a validation error; no message is built, no SMTP connection opened
\* and no provider call made.
C5_InvalidRecipientRejected ==
    (req.endpoint = "/email" /\ \E i \in 1..Len(req.recipients) : ~IsEmail(req.recipients[i]))
        => /\ pc = "done"
           /\ resp.kind = "validation_error"
           /\ msg = <<>>
           /\ smtp = <<>>
           /\ calls = <<>>

\* "not-an-email" after a valid address, SMTP being fully configured
C5_Witness ==
    /\ req.endpoint = "/email"
    /\ req.recipients =
          << <<97, 64, 98, 46, 99, 111>>,
             <<110, 111, 116, 45, 97, 110, 45, 101, 109, 97, 105, 108>> >>
    /\ \A name \in SmtpVars : ~Unset(name) /\ ~SetEmpty(name)
    /\ env["SMTP_PORT"] = << <<50, 53>> >>
    /\ resp.kind = "validation_error"

\* C6: with GEMINI_API_KEY unset or empty the process does not start: it ends
\* in RuntimeError, no request is ever taken up, no provider or SMTP call made.
C6_NoKeyNoService ==
    (Unset("GEMINI_API_KEY") \/ SetEmpty("GEMINI_API_KEY"))
        => /\ proc \in {"boot", "RuntimeError"}
           /\ cfg = <<>>
           /\ pc = "idle"
           /\ req.endpoint = ""
           /\ resp.kind = "none"
           /\ calls = <<>>
           /\ smtp = <<>>

\* the key is set to the empty string and start-up has failed
C6_Witness == SetEmpty("GEMINI_API_KEY") /\ proc = "RuntimeError"

SmtpFailed == \E i \in 1..Len(smtp) : smtp[i].result # "ok"

SmtpRaised ==
    \E i \in 1..Len(smtp) : smtp[i].result = "error"

\* C7 as stated: once the process runs, a failed outbound call (the provider
\* call, the SMTP session) gives a normal response body, never an unhandled
\* fault.
C7_Original ==
    (pc = "done" /\ (ProviderRaised \/ SmtpFailed)) => resp.kind \in {"summary", "email"}

\* C7 (amended): a failure in the SMTP session of send_email gives a normal
\* response body, {"ok": false, "error": ...} when an operation raised; an
\* exception of the provider call in summarize or upload_and_summarize is not
\* caught and leaves the handler.
C7_Amended ==
    pc = "done" =>
        /\ SmtpFailed => resp.kind = "email"
        /\ SmtpRaised => ~resp.ok /\ resp.error # ""
        /\ ProviderRaised => resp.kind = "unhandled"

\* the connection was refused and the caller got the failure as data
C7_Witness ==
    /\ pc = "done"
    /\ smtp = << [op |-> "connect", result |-> "error"] >>
    /\ resp.kind = "email"
    /\ ~resp.ok

\* C8 as stated: every provider call carries the fixed system prompt together
\* with the instruction and the transcript.
C8_Original ==
    \A i \in 1..Len(calls) :
        \/ calls[i].system_instruction = <<SYSTEM_PROMPT>>
        \/ Contains(calls[i].contents, SYSTEM_PROMPT)

\* C9 as stated: with the API key set, start-up succeeds whatever SMTP
\* settings are present, missing or empty; a missing or empty one only makes
\* /email return the not-configured result.
C9_Original ==
    (~Unset("GEMINI_API_KEY") /\ ~SetEmpty("GEMINI_API_KEY")) =>
        /\ proc \in {"boot", "running"}
        /\ (ValidEmailRequest /\ pc = "done"
               /\ \E name \in SmtpVars : Unset(name) \/ SetEmpty(name))
              => resp = NotConfiguredResp

SmtpOrder == <<"connect", "starttls", "login", "send_message">>

\* C10: the SMTP operations of one request are connect, STARTTLS, login,
\* send_message in this order, each at most once and only after the one
\* before it succeeded, followed at most by the QUIT of leaving the session;
\* {"ok": true} is returned only after send_message succeeded.
C10_SmtpOrder ==
    /\ \A i \in 1..Len(smtp) :
          \/ smtp[i].op = "quit" /\ i = Len(smtp) /\ i > 1
          \/ i <= 4 /\ smtp[i].op = SmtpOrder[i]
    /\ \A i \in 2..Len(smtp) : smtp[i].op # "quit" => smtp[i - 1].result = "ok"
    /\ (resp.kind = "email" /\ resp.ok) =>
          \E i \in 1..Len(smtp) : smtp[i] = [op |-> "send_message", result |-> "ok"]

\* the whole session ran and the caller was told so
C10_Witness ==
    /\ resp.kind = "email"
    /\ resp.ok
    /\ Len(smtp) = 5
    /\ smtp[4] = [op |-> "send_message", result |-> "ok"]

====
